---- MODULE Spec2Model ----
(***************************************************************************)
(* A model of huffman.Label (huffman.go): n-ary Huffman labelling with a   *)
(* container/heap priority queue over a flat pool of nodes.                *)
(*                                                                         *)
(* Go slices are modelled as TLA+ sequences; a Go index k is position k+1  *)
(* of the sequence.  A *node pointer is the 0-based index of the node in   *)
(* the pool.  Go's int is a fixed-width two's-complement integer whose +   *)
(* wraps around; the model keeps that behaviour at a width of IntBits bits *)
(* and draws frequencies both from a small range around zero and from the  *)
(* values next to the ends of the int range.                               *)
(***************************************************************************)
EXTENDS Integers, Sequences, FiniteSets, TLC

\* ------------------------------------------------------------------ bounds
MaxBase == 4
MaxItems == 5
MaxNeg == 1
MaxFreq == 1
MaxOptItems == 4
MaxOptFreq == 2
IntBits == 8

\* ------------------------------------------------------- program constants
NoIndex == -1

MsgAlphabet == "alphabet must have at least two elements"
MsgDivide == "integer divide by zero"
MsgIndex == "index out of range"

VARIABLES base, freqs, pc, panicMsg, numIters, numNodes, nodes, nextNodeIdx,
          nodeHeap, totalHops, labelData, labels, idx, combines

vars == <<base, freqs, pc, panicMsg, numIters, numNodes, nodes, nextNodeIdx,
          nodeHeap, totalHops, labelData, labels, idx, combines>>

\* ------------------------------------------------------------ Go arithmetic
Abs(x) == IF x < 0 THEN -x ELSE x

\* Go's / on ints truncates toward zero (b # 0).
GoDiv(a, b) ==
    IF (a < 0) = (b < 0) THEN Abs(a) \div Abs(b) ELSE -(Abs(a) \div Abs(b))

\* The int range, and + on ints (wraps around on overflow).
RECURSIVE Pow(_, _)
Pow(b, e) == IF e = 0 THEN 1 ELSE b * Pow(b, e - 1)

MaxInt == Pow(2, IntBits - 1) - 1

MinInt == -Pow(2, IntBits - 1)

Wrap(x) == ((x - MinInt) % Pow(2, IntBits)) + MinInt

IntAdd(a, b) == Wrap(a + b)

\* Go's % takes the sign of the dividend.
GoMod(a, b) == a - b * GoDiv(a, b)

\* ------------------------------------------------------------------- nodes
LeafNode(f) ==
    [ParentIndex |-> NoIndex, SiblingIndex |-> NoIndex, TotalHops |-> 0, Freq |-> f]

ZeroNode ==
    [ParentIndex |-> 0, SiblingIndex |-> 0, TotalHops |-> 0, Freq |-> 0]

\* ---------------------------------------------------------------- nodeHeap
\* h is the heap slice (node indices), ns the pool the pointers refer to.
LessRev(ns, h, i, j) == ns[h[i + 1] + 1].Freq > ns[h[j + 1] + 1].Freq

Less(ns, h, i, j) == ns[h[i + 1] + 1].Freq < ns[h[j + 1] + 1].Freq

Swap(h, i, j) == [h EXCEPT ![i + 1] = h[j + 1], ![j + 1] = h[i + 1]]

\* container/heap.up
RECURSIVE up(_, _, _)
up(ns, h, j) ==
    LET i == GoDiv(j - 1, 2)
    IN IF i = j \/ ~Less(ns, h, j, i) THEN h
       ELSE up(ns, Swap(h, i, j), i)

\* container/heap.down
RECURSIVE down(_, _, _, _)
down(ns, h, i, n) ==
    LET j1 == 2 * i + 1
    IN IF j1 >= n \/ j1 < 0 THEN h
       ELSE LET j2 == j1 + 1
                j == IF j2 < n /\ Less(ns, h, j2, j1) THEN j2 ELSE j1
            IN IF ~Less(ns, h, j, i) THEN h
               ELSE down(ns, Swap(h, i, j), j, n)

\* container/heap.Init: for i := n/2 - 1; i >= 0; i-- { down(h, i, n) }
RECURSIVE heapInitFrom(_, _, _)
heapInitFrom(ns, h, i) ==
    IF i < 0 THEN h ELSE heapInitFrom(ns, down(ns, h, i, Len(h)), i - 1)

heapInit(ns, h) == heapInitFrom(ns, h, GoDiv(Len(h), 2) - 1)

\* container/heap.Push: h.Push(x); up(h, h.Len()-1)
heapPush(ns, h, x) == up(ns, Append(h, x), Len(h))

\* container/heap.Pop: swap(0, n); down(0, n); h.Pop()
heapPop(ns, h) ==
    LET n == Len(h) - 1
        h2 == down(ns, Swap(h, 0, n), 0, n)
    IN [v |-> h2[n + 1], heap |-> SubSeq(h2, 1, n)]

\* ------------------------------------------------------------------- Label
\* if base < 2 { panic(...) }
InvalidBaseOff(b) == b < 1

InvalidBase(b) == b < 2

\* case 1: return [][]int{{0}}
SingleLabelsOff == << <<1>> >>

SingleLabels == << <<0>> >>

\* numIters := (len(freqs)-1)/(base-1) + 1
NumItersNoPad(n, b) == GoDiv(n - 1, b - 1)

NumIters(n, b) == GoDiv(n - 1, b - 1) + 1

\* initial := 2 + (len(nodeHeap)-2)%(base-1)
InitialCountPlain(n, b) == b

InitialCountTwo(n, b) == 2

InitialCount(n, b) == 2 + GoMod(n - 2, b - 1)

\* for len(nodeHeap) > 1
LoopCond(n) == n > 1

\* child.SiblingIndex = i
ChildSiblingOff(i) == i + 1

ChildSibling(i) == i

\* TotalHops: totalHops + numChildren
ParentTotalHops(hops, numChildren) == hops + numChildren

\* slices.Reverse(label)
ReverseNone(s) == s

Reverse(s) == [k \in 1..Len(s) |-> s[Len(s) + 1 - k]]

\* The child loop of combine:
\*   for i := 0; i < numChildren && len(nodeHeap) > 0; i++ { ... }
RECURSIVE CombineChildren(_, _, _, _, _, _, _)
CombineChildren(ns, h, i, numChildren, parentIdx, freq, hops) ==
    IF i < numChildren /\ Len(h) > 0
    THEN LET p == heapPop(ns, h)
             child == p.v
             ns2 == [ns EXCEPT ![child + 1].ParentIndex = parentIdx,
                               ![child + 1].SiblingIndex = ChildSibling(i)]
         IN CombineChildren(ns2, p.heap, i + 1, numChildren, parentIdx,
                            IntAdd(freq, ns[child + 1].Freq),
                            hops + ns[child + 1].TotalHops)
    ELSE [nodes |-> ns, heap |-> h, count |-> i, freq |-> freq, hops |-> hops]

\* The closure combine(numChildren), on the current state.  Storing the
\* parent past the end of the pool is a run-time panic; otherwise control
\* is at the loop test of huffman.go:164 afterwards.
combine(numChildren) ==
    LET parentIdx == nextNodeIdx
        r == CombineChildren(nodes, nodeHeap, 0, numChildren, parentIdx, 0, 0)
        parent == [ParentIndex |-> NoIndex, SiblingIndex |-> NoIndex,
                   Freq |-> r.freq,
                   TotalHops |-> ParentTotalHops(r.hops, numChildren)]
    IN /\ nextNodeIdx' = parentIdx + 1
       /\ combines' = Append(combines, [requested |-> numChildren,
                                        popped |-> r.count,
                                        parent |-> parentIdx])
       /\ IF parentIdx >= Len(r.nodes)
          THEN /\ nodes' = r.nodes
               /\ nodeHeap' = r.heap
               /\ pc' = "panicked"
               /\ panicMsg' = MsgIndex
          ELSE LET ns2 == [r.nodes EXCEPT ![parentIdx + 1] = parent]
               IN /\ nodes' = ns2
                  /\ nodeHeap' = heapPush(ns2, r.heap, parentIdx)
                  /\ pc' = "loop"
                  /\ panicMsg' = panicMsg

\* The walk from a leaf to the root:
\*   for c := n; c.ParentIndex != -1; c = nodes[c.ParentIndex] { append }
RECURSIVE LeafPath(_, _)
LeafPath(ns, c) ==
    IF ns[c + 1].ParentIndex = NoIndex THEN << >>
    ELSE <<ns[c + 1].SiblingIndex>> \o LeafPath(ns, ns[c + 1].ParentIndex)

\* ----------------------------------------------------------------- inputs
FreqRange == (-MaxNeg)..MaxFreq

\* Frequencies at the ends of the int range, where sums wrap.
BigRange == {MinInt, 1, MaxInt - 1, MaxInt}

TestVectors ==
    { <<1, 1, 1, 1, 1>>,
      <<10, 12, 7, 8, 32, 1, 17, 18>>,
      <<5, 4, 3, 2, 1>>,
      <<50, 25, 12, 6>> }

\* base is any int; 0 and 1 are the values below the minimum of 2.
Bases == 0..MaxBase

FreqSeqs(max, range) == UNION {[1..n -> range] : n \in 0..max}

Entry(b, f) ==
    /\ base = b
    /\ freqs = f
    /\ pc = "start"
    /\ panicMsg = ""
    /\ numIters = 0
    /\ numNodes = 0
    /\ nodes = << >>
    /\ nextNodeIdx = 0
    /\ nodeHeap = << >>
    /\ totalHops = 0
    /\ labelData = << >>
    /\ labels = << >>
    /\ idx = 0
    /\ combines = << >>

Init ==
    \E b \in Bases :
        \E f \in FreqSeqs(MaxItems, FreqRange) \cup FreqSeqs(MaxItems, BigRange)
                  \cup TestVectors :
            Entry(b, f)

InitOpt ==
    \E b \in Bases :
        \E f \in FreqSeqs(MaxOptItems, 0..MaxOptFreq) : Entry(b, f)

\* ----------------------------------------------------------------- actions
\* huffman.go:42-44
PanicBase ==
    /\ pc = "start"
    /\ InvalidBase(base)
    /\ pc' = "panicked"
    /\ panicMsg' = MsgAlphabet
    /\ UNCHANGED <<base, freqs, numIters, numNodes, nodes, nextNodeIdx,
                   nodeHeap, totalHops, labelData, labels, idx, combines>>

\* huffman.go:46-48
ReturnEmpty ==
    /\ pc = "start"
    /\ ~InvalidBase(base)
    /\ Len(freqs) = 0
    /\ pc' = "done"
    /\ labels' = << >>
    /\ UNCHANGED <<base, freqs, panicMsg, numIters, numNodes, nodes,
                   nextNodeIdx, nodeHeap, totalHops, labelData, idx, combines>>

\* huffman.go:49-53
ReturnSingle ==
    /\ pc = "start"
    /\ ~InvalidBase(base)
    /\ Len(freqs) = 1
    /\ pc' = "done"
    /\ labels' = SingleLabels
    /\ UNCHANGED <<base, freqs, panicMsg, numIters, numNodes, nodes,
                   nextNodeIdx, nodeHeap, totalHops, labelData, idx, combines>>

\* huffman.go:100-118: size the pool, make the leaves, fill and Init the heap
Alloc ==
    /\ pc = "start"
    /\ ~InvalidBase(base)
    /\ Len(freqs) >= 2
    /\ IF base - 1 = 0
       THEN /\ pc' = "panicked"
            /\ panicMsg' = MsgDivide
            /\ UNCHANGED <<numIters, numNodes, nodes, nextNodeIdx, nodeHeap>>
       ELSE LET iters == NumIters(Len(freqs), base)
                n == Len(freqs) + iters
                ns == [k \in 1..n |->
                         IF k <= Len(freqs) THEN LeafNode(freqs[k]) ELSE ZeroNode]
            IN /\ numIters' = iters
               /\ numNodes' = n
               /\ nodes' = ns
               /\ nextNodeIdx' = Len(freqs)
               /\ nodeHeap' = heapInit(ns, [k \in 1..Len(freqs) |-> k - 1])
               /\ pc' = "first"
               /\ panicMsg' = panicMsg
    /\ UNCHANGED <<base, freqs, totalHops, labelData, labels, idx, combines>>

\* huffman.go:159-162
FirstCombine ==
    /\ pc = "first"
    /\ LET initial == InitialCount(Len(nodeHeap), base)
       IN IF initial > 0
          THEN combine(initial)
          ELSE /\ pc' = "loop"
               /\ UNCHANGED <<nodes, nodeHeap, nextNodeIdx, combines, panicMsg>>
    /\ UNCHANGED <<base, freqs, numIters, numNodes, totalHops, labelData,
                   labels, idx>>

\* huffman.go:164-166, one iteration
LoopCombine ==
    /\ pc = "loop"
    /\ LoopCond(Len(nodeHeap))
    /\ combine(base)
    /\ UNCHANGED <<base, freqs, numIters, numNodes, totalHops, labelData,
                   labels, idx>>

\* huffman.go:169-180: leave the loop, read the root, make labels, labelData
Presize ==
    /\ pc = "loop"
    /\ ~LoopCond(Len(nodeHeap))
    /\ IF Len(nodeHeap) = 0
       THEN /\ pc' = "panicked"
            /\ panicMsg' = MsgIndex
            /\ UNCHANGED <<totalHops, labels>>
       ELSE /\ totalHops' = nodes[nodeHeap[1] + 1].TotalHops
            /\ labels' = [k \in 1..Len(freqs) |-> << >>]
            /\ pc' = "extract"
            /\ panicMsg' = panicMsg
    /\ idx' = 0
    /\ labelData' = << >>
    /\ UNCHANGED <<base, freqs, numIters, numNodes, nodes, nextNodeIdx,
                   nodeHeap, combines>>

\* huffman.go:182-193, one leaf
ExtractLabel ==
    /\ pc = "extract"
    /\ idx < Len(freqs)
    /\ LET path == LeafPath(nodes, idx)
       IN /\ labelData' = labelData \o Reverse(path)
          /\ labels' = [labels EXCEPT ![idx + 1] = Reverse(path)]
    /\ idx' = idx + 1
    /\ UNCHANGED <<base, freqs, pc, panicMsg, numIters, numNodes, nodes,
                   nextNodeIdx, nodeHeap, totalHops, combines>>

\* huffman.go:195
Return ==
    /\ pc = "extract"
    /\ idx = Len(freqs)
    /\ pc' = "done"
    /\ UNCHANGED <<base, freqs, panicMsg, numIters, numNodes, nodes,
                   nextNodeIdx, nodeHeap, totalHops, labelData, labels, idx,
                   combines>>

Next ==
    \/ PanicBase
    \/ ReturnEmpty
    \/ ReturnSingle
    \/ Alloc
    \/ FirstCombine
    \/ LoopCombine
    \/ Presize
    \/ ExtractLabel
    \/ Return

Spec == Init /\ [][Next]_vars

SpecOpt == InitOpt /\ [][Next]_vars

\* ----------------------------------------------------------- vocabulary
NumItems == Len(freqs)

Items == 1..Len(freqs)

Returned == pc = "done"

IsPrefix(a, b) == Len(a) <= Len(b) /\ SubSeq(b, 1, Len(a)) = a

RECURSIVE SumLens(_, _)
SumLens(ls, k) == IF k = 0 THEN 0 ELSE Len(ls[k]) + SumLens(ls, k - 1)

MinOf(f) == CHOOSE x \in {f[i] : i \in DOMAIN f} : \A i \in DOMAIN f : x <= f[i]

MaxOf(f) == CHOOSE x \in {f[i] : i \in DOMAIN f} : \A i \in DOMAIN f : x >= f[i]

Distinct(f) == \A i, j \in DOMAIN f : i # j => f[i] # f[j]

\* Number of items with a strictly smaller frequency.
Rank(f, i) == Cardinality({j \in DOMAIN f : f[j] < f[i]})

CeilDiv(a, b) == (a + b - 1) \div b

\* No node weight can wrap: the magnitudes of the frequencies sum to at
\* most MaxInt.
RECURSIVE SumAbs(_, _)
SumAbs(f, k) == IF k = 0 THEN 0 ELSE Abs(f[k]) + SumAbs(f, k - 1)

NoOverflow == SumAbs(freqs, Len(freqs)) <= MaxInt

\* ---------------------------------------------------------------- claims
\* C1: for base >= 2 the returned labels are pairwise distinct and no label
\* is a prefix of the label of another item.
C1_PrefixFree ==
    (Returned /\ base >= 2) =>
        \A i, j \in Items : i # j => ~IsPrefix(labels[i], labels[j])

C1_Witness ==
    /\ Returned
    /\ NumItems >= 3
    /\ ~Distinct(freqs)
    /\ \E i, j \in Items : Len(labels[i]) = 1 /\ Len(labels[j]) >= 2

\* C2: for base >= 2 Label returns exactly one label per item, no label is
\* empty and every symbol index lies in [0, base).
C2_Shape ==
    (Returned /\ base >= 2) =>
        /\ Len(labels) = NumItems
        /\ \A i \in Items :
              /\ Len(labels[i]) >= 1
              /\ \A k \in 1..Len(labels[i]) : labels[i][k] \in 0..(base - 1)

C2_Witness ==
    /\ Returned
    /\ base >= 3
    /\ NumItems > base
    /\ \E i \in Items : \E k \in 1..Len(labels[i]) : labels[i][k] = base - 1

\* C3: with base < 2 the call panics with the invalid-argument message for
\* every F, and nothing (pool, heap, combination, label) is ever built.
C3_BaseCheckedFirst ==
    base < 2 =>
        /\ pc = "start" \/ (pc = "panicked" /\ panicMsg = MsgAlphabet)
        /\ nodes = << >>
        /\ nodeHeap = << >>
        /\ combines = << >>
        /\ labels = << >>

C3_Witness == pc = "panicked" /\ base = 1 /\ NumItems = 1

C5_SpecialCases ==
    (base >= 2 /\ NumItems <= 1 /\ pc # "start") =>
        /\ Returned
        /\ panicMsg = ""
        /\ labels = IF NumItems = 0 THEN << >> ELSE << <<0>> >>
        /\ nodes = << >>
        /\ nodeHeap = << >>
        /\ combines = << >>

C5_Witness == Returned /\ NumItems = 1 /\ freqs[1] # 0 /\ base = 3

\* C6: with 2 <= len(F) <= base and pairwise distinct frequencies there is
\* one combination, and the item with the k-th smallest frequency gets [k];
\* Label(4, [50,25,12,6]) = [[3],[2],[1],[0]].
C6_SingleCombination ==
    /\ (Returned /\ base >= 2 /\ NumItems >= 2 /\ NumItems <= base
            /\ Distinct(freqs)) =>
          /\ Len(combines) = 1
          /\ \A i \in Items : labels[i] = <<Rank(freqs, i)>>
    /\ (Returned /\ base = 4 /\ freqs = <<50, 25, 12, 6>>) =>
          labels = << <<3>>, <<2>>, <<1>>, <<0>> >>

C6_Witness == Returned /\ base = 4 /\ freqs = <<50, 25, 12, 6>>

\* C7: when the tree is finished the root's TotalHops equals the sum of the
\* lengths of all labels, so labelData never grows past its capacity.
C7_TotalHopsIsSumOfDepths ==
    (Returned /\ NumItems >= 2) =>
        /\ totalHops = SumLens(labels, Len(labels))
        /\ Len(labelData) <= totalHops

\* C8: the first combination pops 2 + (len(F)-2) mod (base-1) nodes, a count
\* in 2..base; every later one pops exactly base nodes; every combination
\* pops as many as requested; the loop ends with one node in the heap.
C8_CombinationSizes ==
    /\ \A k \in 1..Len(combines) :
          /\ combines[k].popped = combines[k].requested
          /\ k = 1 => /\ combines[k].requested =
                            2 + ((NumItems - 2) % (base - 1))
                      /\ combines[k].requested \in 2..base
          /\ k > 1 => combines[k].requested = base
    /\ (pc \in {"extract", "done"} /\ NumItems >= 2) => Len(nodeHeap) = 1

C8_Witness ==
    /\ Returned
    /\ base >= 3
    /\ Len(combines) >= 2
    /\ combines[1].requested < base

\* C9: ceil((C-1)/(base-1)) combinations are performed, never more than the
\* allocated (C-1)/(base-1)+1, and every parent index is inside the pool.
C9_PoolSuffices ==
    /\ panicMsg # MsgIndex
    /\ \A k \in 1..Len(combines) :
          combines[k].parent <
              NumItems + ((NumItems - 1) \div (base - 1)) + 1
    /\ (pc \in {"extract", "done"} /\ NumItems >= 2) =>
          /\ Len(combines) = CeilDiv(NumItems - 1, base - 1)
          /\ Len(combines) <= (NumItems - 1) \div (base - 1) + 1

C9_Witness ==
    /\ Returned
    /\ Len(combines) >= 2
    /\ Len(combines) = numIters
    /\ combines[Len(combines)].parent = Len(nodes) - 1

\* Weighted length of a vector of label lengths, and Kraft's inequality
\* (sum of base^(-len) <= 1, scaled by base^maxLen) for it.
Cost(lens) ==
    LET RECURSIVE Sum(_)
        Sum(k) == IF k = 0 THEN 0 ELSE freqs[k] * lens[k] + Sum(k - 1)
    IN Sum(NumItems)

Kraft(lens, maxLen) ==
    LET RECURSIVE Sum(_)
        Sum(k) == IF k = 0 THEN 0
                  ELSE Pow(base, maxLen - lens[k]) + Sum(k - 1)
    IN Sum(NumItems) <= Pow(base, maxLen)

\* C10: for non-negative frequencies the returned labelling has minimum
\* weighted length among all length vectors satisfying Kraft's inequality
\* for base symbols.
C10_Optimal ==
    (Returned /\ base >= 2 /\ \A i \in Items : freqs[i] >= 0) =>
        \A lens \in [Items -> 1..MaxOptItems] :
            Kraft(lens, MaxOptItems) =>
                Cost([i \in Items |-> Len(labels[i])]) <= Cost(lens)

C10_Witness ==
    /\ Returned
    /\ base >= 3
    /\ Len(combines) >= 2
    /\ combines[1].requested < base
    /\ \A i \in Items : freqs[i] > 0
    /\ ~Distinct(freqs)

====
